---- MODULE Spec2Model ----
(***************************************************************************)
(* SmartCopy 1.2.1: the synchronization engine (run, copyRecursively,      *)
(* copyDirectory, copyFile, needsUpdate, sanitizeFATTime,                  *)
(* handleExtraFiles) over an abstract filesystem.                          *)
(*                                                                         *)
(* A path is a sequence of names, the filesystem a function from the       *)
(* existing paths to their entries. The Go call stack is the sequence      *)
(* `stack` of frames; `ret` is the error value the last returned call      *)
(* handed to its caller. Time is counted in ticks, TicksPerSecond to the   *)
(* second, relative to 1980-01-01T00:00:00 local time.                     *)
(***************************************************************************)
EXTENDS Integers, Sequences, FiniteSets, TLC

VARIABLES fs, fs0, stack, ret, stats, args, opts, handles, faults, out, log, results

vars == <<fs, fs0, stack, ret, stats, args, opts, handles, faults, out, log, results>>

-----------------------------------------------------------------------------
(* Bounds of the model *)

\* resolution of the model's clock
TicksPerSecond == 2

\* length of the FAT range in seconds (the real range spans 128 years)
FATSpanSeconds == 30

\* largest file size in bytes
MaxSize == 2

\* injected I/O failures per behaviour
MaxFaults == 1

\* invocations of the program (or of copyRecursively) per behaviour
MaxRounds == 2

\* longest path, in names, that the system accepts
MaxDepth == 4

-----------------------------------------------------------------------------
(* Time *)

Second == TicksPerSecond

\* time.Date(1980, time.January, 1, 0, 0, 0, 0, time.Local): the origin of the clock
FATMin == 0

\* time.Date(2107, time.December, 31, 23, 59, 58, 0, time.Local)
FATMax == FATMin + FATSpanSeconds * Second

\* 5*time.Second
Tolerance == 5 * Second

\* the wall clock while the program runs (time.Now as the filesystem sees it)
Now == FATMin + 20 * Second

Abs(x) == IF x < 0 THEN -x ELSE x

\* the clamp without its ceiling
sanitizeFATTimeNoCeiling(t) == IF t < FATMin THEN FATMin ELSE t

sanitizeFATTime(t) ==
    IF t < FATMin THEN FATMin
    ELSE IF t > FATMax THEN FATMax
    ELSE t

-----------------------------------------------------------------------------
(* Paths and the filesystem *)

Root == <<>>

\* filepath.Join(p, name)
Join(p, n) == Append(p, n)

\* filepath.Dir
Dir(p) == IF p = Root THEN Root ELSE SubSeq(p, 1, Len(p) - 1)

\* filepath.Base
Base(p) == p[Len(p)]

IsPrefix(p, q) == Len(p) <= Len(q) /\ SubSeq(q, 1, Len(p)) = p

\* filepath.Rel(root, p) for p under root
Rel(root, p) == SubSeq(p, Len(root) + 1, Len(p))

\* lexical order of the names (os.ReadDir and filepath.Walk sort by name)
NameOrder == <<"a", "b", "d", "s", "t", "u">>

Rank(n) == CHOOSE i \in 1..Len(NameOrder) : NameOrder[i] = n

FileEntry(sz, mt) == [kind |-> "file", size |-> sz, mtime |-> mt]

\* os.FileInfo.Size() of a directory is system-dependent; 0 as on Windows
DirEntry(mt) == [kind |-> "dir", size |-> 0, mtime |-> mt]

EmptyFS == [p \in {} |-> FileEntry(0, 0)]

Exists(f, p) == p \in DOMAIN f

IsDir(f, p) == Exists(f, p) /\ f[p].kind = "dir"

IsFile(f, p) == Exists(f, p) /\ f[p].kind = "file"

Children(f, p) == {q \in DOMAIN f : Len(q) = Len(p) + 1 /\ IsPrefix(p, q)}

Under(f, p) == {q \in DOMAIN f : IsPrefix(p, q)}

\* relative paths of everything below root, root excluded
RelPaths(f, root) == {Rel(root, q) : q \in Under(f, root) \ {root}}

\* a set of sibling names as the sorted sequence os.ReadDir returns
RECURSIVE SortNames(_)
SortNames(S) ==
    IF S = {} THEN <<>>
    ELSE LET m == CHOOSE n \in S : \A k \in S : Rank(n) <= Rank(k)
         IN <<m>> \o SortNames(S \ {m})

ReadDir(f, p) == SortNames({Base(q) : q \in Children(f, p)})

\* creating or removing an entry updates the modification time of its parent
Touch(f, p) == IF Exists(f, p) THEN [f EXCEPT ![p].mtime = Now] ELSE f

Put(f, p, e) == [q \in DOMAIN f \cup {p} |-> IF q = p THEN e ELSE f[q]]

\* os.MkdirAll succeeds iff no prefix of p (p included) exists as a file
MkdirAllOk(f, p) ==
    /\ Len(p) <= MaxDepth
    /\ \A i \in 0..Len(p) : ~IsFile(f, SubSeq(p, 1, i))

RECURSIVE MkdirAll(_, _)
MkdirAll(f, p) ==
    IF Exists(f, p) \/ p = Root THEN f
    ELSE Touch(Put(MkdirAll(f, Dir(p)), p, DirEntry(Now)), Dir(p))

\* os.OpenFile(dst, O_CREATE|O_WRONLY|O_TRUNC): fails on a directory or a missing parent
OpenTruncOk(f, p) == Len(p) <= MaxDepth /\ ~IsDir(f, p) /\ IsDir(f, Dir(p))

OpenTrunc(f, p) ==
    IF Exists(f, p) THEN [f EXCEPT ![p] = FileEntry(0, Now)]
    ELSE Touch(Put(f, p, FileEntry(0, Now)), Dir(p))

\* n bytes written through the open handle
WriteBytes(f, p, n) == [f EXCEPT ![p] = FileEntry(n, Now)]

\* os.Chtimes(p, m, m)
Chtimes(f, p, m) == [f EXCEPT ![p].mtime = m]

\* os.Remove in the place of os.RemoveAll: a directory that is not empty stays
RemoveEmpty(f, p) ==
    IF Children(f, p) # {} THEN f
    ELSE Touch([q \in DOMAIN f \ {p} |-> f[q]], Dir(p))

\* os.RemoveAll(p); os.Remove(p) on a file
RemoveAll(f, p) ==
    Touch([q \in DOMAIN f \ Under(f, p) |-> f[q]], Dir(p))

-----------------------------------------------------------------------------
(* Frames, statistics, output *)

Top == stack[Len(stack)]

Pop == SubSeq(stack, 1, Len(stack) - 1)

SetTop(fr) == [stack EXCEPT ![Len(stack)] = fr]

At(fn, pc) == stack # <<>> /\ Top.fn = fn /\ Top.pc = pc

\* CopyStats{StartTime: time.Now()}
ZeroStats ==
    [FilesCopied |-> 0, FilesSkipped |-> 0, BytesCopied |-> 0,
     ExtraFound |-> 0, ExtraDeleted |-> 0, ExtraBytes |-> 0]

NoOut == [extraFiles |-> <<>>, extraDirs |-> <<>>, deleted |-> <<>>, summary |-> FALSE]

Event(op, p, a) == [op |-> op, path |-> p, arg |-> a]

Return(r) == stack' = Pop /\ ret' = r

Frame(fn, pc, src, dst) == [fn |-> fn, pc |-> pc, src |-> src, dst |-> dst]

-----------------------------------------------------------------------------
(* needsUpdate *)

\* os.Stat(dst) fails with an error other than not-exist (a prefix of dst is a file)
StatErr(f, p) ==
    \/ Len(p) > MaxDepth
    \/ \E i \in 0..(Len(p) - 1) : IsFile(f, SubSeq(p, 1, i))

\* the comparison of version 1.0: times truncated to the second must be equal
needsUpdateTruncating(f, dst, srcInfo) ==
    \/ ~Exists(f, dst)
    \/ srcInfo.size # f[dst].size
    \/ (srcInfo.mtime \div Second) # (f[dst].mtime \div Second)

\* the difference taken without its absolute value
needsUpdateNoAbs(f, dst, srcInfo) ==
    \/ ~Exists(f, dst)
    \/ srcInfo.size # f[dst].size
    \/ srcInfo.mtime - f[dst].mtime > Tolerance

\* a difference of exactly the tolerance counts as a change
needsUpdateAtLeast(f, dst, srcInfo) ==
    \/ ~Exists(f, dst)
    \/ srcInfo.size # f[dst].size
    \/ Abs(srcInfo.mtime - f[dst].mtime) >= Tolerance

\* the sizes are not compared
needsUpdateTimeOnly(f, dst, srcInfo) ==
    \/ ~Exists(f, dst)
    \/ Abs(srcInfo.mtime - f[dst].mtime) > Tolerance

\* a destination shorter than the source is not taken for different
needsUpdateShorterKept(f, dst, srcInfo) ==
    \/ ~Exists(f, dst)
    \/ srcInfo.size < f[dst].size
    \/ Abs(srcInfo.mtime - f[dst].mtime) > Tolerance

\* the boolean needsUpdate returns when os.Stat(dst) gave no error but not-exist
needsUpdate(f, dst, srcInfo) ==
    \/ ~Exists(f, dst)
    \/ srcInfo.size # f[dst].size
    \/ Abs(srcInfo.mtime - f[dst].mtime) > Tolerance

-----------------------------------------------------------------------------
(* copyRecursively, copyDirectory *)

copyRecursively ==
    /\ At("copyRecursively", "start")
    /\ IF ~Exists(fs, Top.src)
       THEN Return("err")
       ELSE /\ stack' = SetTop(
                    IF fs[Top.src].kind = "dir"
                    THEN [fn |-> "copyDirectory", pc |-> "mkdir", src |-> Top.src,
                          dst |-> Top.dst, info |-> fs[Top.src], entries |-> <<>>]
                    ELSE [fn |-> "copyFile", pc |-> "check", src |-> Top.src,
                          dst |-> Top.dst, info |-> fs[Top.src], needsCopy |-> FALSE,
                          written |-> 0])
            /\ ret' = "none"
    /\ UNCHANGED <<fs, fs0, stats, args, opts, handles, faults, out, log, results>>

\* the directory's time is set right after os.MkdirAll, before its contents are copied
copyDirectoryEnterStamping ==
    /\ At("copyDirectory", "mkdir")
    /\ IF ~MkdirAllOk(fs, Top.dst)
       THEN /\ Return("err")
            /\ UNCHANGED <<fs, log>>
       ELSE /\ fs' = Chtimes(MkdirAll(fs, Top.dst), Top.dst, sanitizeFATTime(Top.info.mtime))
            /\ log' = Append(IF Exists(fs, Top.dst) THEN log
                             ELSE Append(log, Event("mkdir", Top.dst, 0)),
                             Event("chtimes", Top.dst, sanitizeFATTime(Top.info.mtime)))
            /\ IF ~IsDir(fs', Top.src)
               THEN Return("err")
               ELSE /\ stack' = SetTop([Top EXCEPT !.pc = "loop",
                                                   !.entries = ReadDir(fs', Top.src)])
                    /\ ret' = "none"
    /\ UNCHANGED <<fs0, stats, args, opts, handles, faults, out, results>>

\* os.MkdirAll(dst, mode) and os.ReadDir(src)
copyDirectoryEnter ==
    /\ At("copyDirectory", "mkdir")
    /\ IF ~MkdirAllOk(fs, Top.dst)
       THEN /\ Return("err")
            /\ UNCHANGED <<fs, log>>
       ELSE /\ fs' = MkdirAll(fs, Top.dst)
            /\ log' = IF Exists(fs, Top.dst) THEN log
                      ELSE Append(log, Event("mkdir", Top.dst, 0))
            /\ IF ~IsDir(fs', Top.src)
               THEN Return("err")
               ELSE /\ stack' = SetTop([Top EXCEPT !.pc = "loop",
                                                   !.entries = ReadDir(fs', Top.src)])
                    /\ ret' = "none"
    /\ UNCHANGED <<fs0, stats, args, opts, handles, faults, out, results>>

\* one iteration of the loop over the entries: the call of copyRecursively
copyDirectoryChild ==
    /\ At("copyDirectory", "loop")
    /\ ret # "err"
    /\ Top.entries # <<>>
    /\ stack' = Append(SetTop([Top EXCEPT !.entries = Tail(@)]),
                       Frame("copyRecursively", "start",
                             Join(Top.src, Head(Top.entries)),
                             Join(Top.dst, Head(Top.entries))))
    /\ ret' = "none"
    /\ UNCHANGED <<fs, fs0, stats, args, opts, handles, faults, out, log, results>>

\* the error of a child is dropped and the loop over the entries goes on
copyDirectoryAbortContinuing ==
    /\ At("copyDirectory", "loop")
    /\ ret = "err"
    /\ ret' = "none"
    /\ UNCHANGED <<fs, fs0, stack, stats, args, opts, handles, faults, out, log, results>>

\* a child returned an error: return it
copyDirectoryAbort ==
    /\ At("copyDirectory", "loop")
    /\ ret = "err"
    /\ Return("err")
    /\ UNCHANGED <<fs, fs0, stats, args, opts, handles, faults, out, log, results>>

\* after all contents: os.Chtimes(dst, m, m) with m the sanitized source time
copyDirectoryFinish ==
    /\ At("copyDirectory", "loop")
    /\ ret # "err"
    /\ Top.entries = <<>>
    /\ \/ /\ Exists(fs, Top.dst)
          /\ fs' = Chtimes(fs, Top.dst, sanitizeFATTime(Top.info.mtime))
          /\ log' = Append(log, Event("chtimes", Top.dst, sanitizeFATTime(Top.info.mtime)))
          /\ Return("ok")
          /\ UNCHANGED faults
       \/ /\ faults > 0
          /\ faults' = faults - 1
          /\ Return("err")
          /\ UNCHANGED <<fs, log>>
    /\ UNCHANGED <<fs0, stats, args, opts, handles, out, results>>

-----------------------------------------------------------------------------
(* copyFile *)

\* needsCopy, err := needsUpdate(src, dst, srcInfo)
copyFileCheck ==
    /\ At("copyFile", "check")
    /\ IF StatErr(fs, Top.dst)
       THEN Return("err")
       ELSE /\ stack' = SetTop([Top EXCEPT
                        !.needsCopy = needsUpdate(fs, Top.dst, Top.info),
                        !.pc = IF needsUpdate(fs, Top.dst, Top.info) THEN "open" ELSE "skip"])
            /\ ret' = "none"
    /\ UNCHANGED <<fs, fs0, stats, args, opts, handles, faults, out, log, results>>

\* the early return of a file that is up to date
copyFileSkip ==
    /\ At("copyFile", "skip")
    /\ stats' = [stats EXCEPT !.FilesSkipped = @ + 1]
    /\ Return("ok")
    /\ UNCHANGED <<fs, fs0, args, opts, handles, faults, out, log, results>>

\* os.MkdirAll(dstDir), os.Open(src), os.OpenFile(dst, O_CREATE|O_WRONLY|O_TRUNC)
copyFileOpen ==
    /\ At("copyFile", "open")
    /\ IF ~MkdirAllOk(fs, Dir(Top.dst)) \/ ~Exists(fs, Top.src)
       THEN /\ Return("err")
            /\ UNCHANGED <<fs, handles, log>>
       ELSE IF ~OpenTruncOk(MkdirAll(fs, Dir(Top.dst)), Top.dst)
       THEN /\ fs' = MkdirAll(fs, Dir(Top.dst))
            /\ Return("err")
            /\ UNCHANGED <<handles, log>>
       ELSE /\ fs' = OpenTrunc(MkdirAll(fs, Dir(Top.dst)), Top.dst)
            /\ handles' = handles \cup {<<"src", Top.src>>, <<"dst", Top.dst>>}
            /\ log' = Append(log, Event("create", Top.dst, 0))
            /\ stack' = SetTop([Top EXCEPT !.pc = "copy"])
            /\ ret' = "none"
    /\ UNCHANGED <<fs0, stats, args, opts, faults, out, results>>

\* io.Copy(dstFile, srcFile); on an error the deferred srcFile.Close() runs
copyFileCopy ==
    /\ At("copyFile", "copy")
    /\ \/ /\ fs' = WriteBytes(fs, Top.dst, fs[Top.src].size)
          /\ log' = Append(log, Event("write", Top.dst, fs[Top.src].size))
          /\ stack' = SetTop([Top EXCEPT !.pc = "sync", !.written = fs[Top.src].size])
          /\ ret' = "none"
          /\ UNCHANGED <<handles, faults>>
       \/ /\ faults > 0
          /\ faults' = faults - 1
          /\ \E n \in 0..fs[Top.src].size :
                /\ fs' = WriteBytes(fs, Top.dst, n)
                /\ log' = Append(log, Event("write", Top.dst, n))
          /\ handles' = handles \ {<<"src", Top.src>>}
          /\ Return("err")
    /\ UNCHANGED <<fs0, stats, args, opts, out, results>>

\* the handle of the destination stays open until the destination's time is set
copyFileSyncDeferred ==
    /\ At("copyFile", "sync")
    /\ stack' = SetTop([Top EXCEPT !.pc = "chtimes"])
    /\ ret' = "none"
    /\ UNCHANGED <<fs, fs0, stats, args, opts, handles, faults, out, log, results>>

\* dstFile.Sync() and dstFile.Close(); a failed Sync returns with dstFile open, a
\* failed Close has released the descriptor
copyFileSync ==
    /\ At("copyFile", "sync")
    /\ \/ /\ handles' = handles \ {<<"dst", Top.dst>>}
          /\ log' = Append(log, Event("close", Top.dst, 0))
          /\ stack' = SetTop([Top EXCEPT !.pc = "chtimes"])
          /\ ret' = "none"
          /\ UNCHANGED faults
       \/ /\ faults > 0
          /\ faults' = faults - 1
          /\ handles' = handles \ {<<"src", Top.src>>}
          /\ log' = Append(log, Event("sync failed", Top.dst, 0))
          /\ Return("err")
       \/ /\ faults > 0
          /\ faults' = faults - 1
          /\ handles' = handles \ {<<"src", Top.src>>, <<"dst", Top.dst>>}
          /\ log' = Append(log, Event("close", Top.dst, 0))
          /\ Return("err")
    /\ UNCHANGED <<fs, fs0, stats, args, opts, out, results>>

\* os.Chtimes(dst, m, m) with m the sanitized source time
copyFileChtimes ==
    /\ At("copyFile", "chtimes")
    /\ \/ /\ fs' = Chtimes(fs, Top.dst, sanitizeFATTime(Top.info.mtime))
          /\ log' = Append(log, Event("chtimes", Top.dst, sanitizeFATTime(Top.info.mtime)))
          /\ stack' = SetTop([Top EXCEPT !.pc = "stats"])
          /\ ret' = "none"
          /\ UNCHANGED <<handles, faults>>
       \/ /\ faults > 0
          /\ faults' = faults - 1
          /\ handles' = handles \ {<<"src", Top.src>>}
          /\ Return("err")
          /\ UNCHANGED <<fs, log>>
    /\ UNCHANGED <<fs0, stats, args, opts, out, results>>

\* a copied file is also counted as skipped
copyFileStatsBoth ==
    /\ At("copyFile", "stats")
    /\ stats' = [stats EXCEPT !.FilesCopied = @ + 1, !.FilesSkipped = @ + 1,
                              !.BytesCopied = @ + Top.written]
    /\ handles' = handles \ {<<"src", Top.src>>}
    /\ Return("ok")
    /\ UNCHANGED <<fs, fs0, args, opts, faults, out, log, results>>

\* the update of the statistics, and the return with the deferred srcFile.Close()
copyFileStats ==
    /\ At("copyFile", "stats")
    /\ stats' = [stats EXCEPT !.FilesCopied = @ + 1, !.BytesCopied = @ + Top.written]
    /\ handles' = handles \ {<<"src", Top.src>>}
    /\ Return("ok")
    /\ UNCHANGED <<fs, fs0, args, opts, faults, out, log, results>>

CopyActions ==
    \/ copyRecursively
    \/ copyDirectoryEnter
    \/ copyDirectoryChild
    \/ copyDirectoryAbort
    \/ copyDirectoryFinish
    \/ copyFileCheck
    \/ copyFileSkip
    \/ copyFileOpen
    \/ copyFileCopy
    \/ copyFileSync
    \/ copyFileChtimes
    \/ copyFileStats

-----------------------------------------------------------------------------
(* handleExtraFiles *)

\* the children of p as the sorted sequence of paths filepath.Walk visits next
RECURSIVE JoinAll(_, _)
JoinAll(p, names) ==
    IF names = <<>> THEN <<>> ELSE <<Join(p, Head(names))>> \o JoinAll(p, Tail(names))

WalkChildren(f, p) == IF IsDir(f, p) THEN JoinAll(p, ReadDir(f, p)) ELSE <<>>

\* for a file source, the directory that holds the target is walked against the
\* file's name
extraStartHoldingDir ==
    /\ At("handleExtraFiles", "start")
    /\ log' = Append(log, Event("handleExtraFiles", Top.dst, 0))
    /\ IF ~Exists(fs, Top.src)
       THEN Return("err")
       ELSE IF ~IsDir(fs, Top.src)
       THEN /\ stack' = SetTop([Top EXCEPT !.pc = "walk",
                                           !.dst = Dir(Top.dst),
                                           !.sourceItems = {<<Base(Top.dst)>>},
                                           !.queue = <<Dir(Top.dst)>>])
            /\ ret' = "none"
       ELSE /\ stack' = SetTop([Top EXCEPT !.pc = "walk",
                                           !.sourceItems = RelPaths(fs, Top.src),
                                           !.queue = <<Top.dst>>])
            /\ ret' = "none"
    /\ UNCHANGED <<fs, fs0, stats, args, opts, handles, faults, out, results>>

\* os.Stat(src) and the walk of the source that builds sourceItems
extraStart ==
    /\ At("handleExtraFiles", "start")
    /\ log' = Append(log, Event("handleExtraFiles", Top.dst, 0))
    /\ IF ~Exists(fs, Top.src)
       THEN Return("err")
       ELSE IF ~IsDir(fs, Top.src)
       THEN Return("ok")
       ELSE /\ stack' = SetTop([Top EXCEPT !.pc = "walk",
                                           !.sourceItems = RelPaths(fs, Top.src),
                                           !.queue = <<Top.dst>>])
            /\ ret' = "none"
    /\ UNCHANGED <<fs, fs0, stats, args, opts, handles, faults, out, results>>

\* the walk descends into every directory
extraVisitDescending(p) ==
    LET rel == Rel(Top.dst, p) IN
    IF ~Exists(fs, p)
    THEN /\ stack' = SetTop([Top EXCEPT !.queue = Tail(@)])
         /\ UNCHANGED stats
    ELSE IF p = Top.dst \/ rel \in Top.sourceItems
    THEN /\ stack' = SetTop([Top EXCEPT !.queue = WalkChildren(fs, p) \o Tail(@)])
         /\ UNCHANGED stats
    ELSE IF IsDir(fs, p)
    THEN /\ stack' = SetTop([Top EXCEPT !.queue = WalkChildren(fs, p) \o Tail(@),
                                        !.extraDirs = Append(@, p)])
         /\ UNCHANGED stats
    ELSE /\ stack' = SetTop([Top EXCEPT !.queue = Tail(@),
                                        !.extraFiles = Append(@, p)])
         /\ stats' = [stats EXCEPT !.ExtraFound = @ + 1,
                                   !.ExtraBytes = @ + fs[p].size]

\* the callback counts an extra directory at once, and the statistics count it again
extraVisitCountingDirs(p) ==
    LET rel == Rel(Top.dst, p) IN
    IF ~Exists(fs, p)
    THEN /\ stack' = SetTop([Top EXCEPT !.queue = Tail(@)])
         /\ UNCHANGED stats
    ELSE IF p = Top.dst \/ rel \in Top.sourceItems
    THEN /\ stack' = SetTop([Top EXCEPT !.queue = WalkChildren(fs, p) \o Tail(@)])
         /\ UNCHANGED stats
    ELSE IF IsDir(fs, p)
    THEN /\ stack' = SetTop([Top EXCEPT !.queue = Tail(@),
                                        !.extraDirs = Append(@, p)])
         /\ stats' = [stats EXCEPT !.ExtraFound = @ + 1]
    ELSE /\ stack' = SetTop([Top EXCEPT !.queue = Tail(@),
                                        !.extraFiles = Append(@, p)])
         /\ stats' = [stats EXCEPT !.ExtraFound = @ + 1,
                                   !.ExtraBytes = @ + fs[p].size]

\* the callback does not consult the source set: every entry of the destination root
\* is extra
extraVisitIgnoringSource(p) ==
    IF ~Exists(fs, p)
    THEN /\ stack' = SetTop([Top EXCEPT !.queue = Tail(@)])
         /\ UNCHANGED stats
    ELSE IF p = Top.dst
    THEN /\ stack' = SetTop([Top EXCEPT !.queue = WalkChildren(fs, p) \o Tail(@)])
         /\ UNCHANGED stats
    ELSE IF IsDir(fs, p)
    THEN /\ stack' = SetTop([Top EXCEPT !.queue = Tail(@),
                                        !.extraDirs = Append(@, p)])
         /\ UNCHANGED stats
    ELSE /\ stack' = SetTop([Top EXCEPT !.queue = Tail(@),
                                        !.extraFiles = Append(@, p)])
         /\ stats' = [stats EXCEPT !.ExtraFound = @ + 1,
                                   !.ExtraBytes = @ + fs[p].size]

\* the callback of filepath.Walk(dst) on the path p
extraVisit(p) ==
    LET rel == Rel(Top.dst, p) IN
    IF ~Exists(fs, p)
    THEN /\ stack' = SetTop([Top EXCEPT !.queue = Tail(@)])
         /\ UNCHANGED stats
    ELSE IF p = Top.dst \/ rel \in Top.sourceItems
    THEN /\ stack' = SetTop([Top EXCEPT !.queue = WalkChildren(fs, p) \o Tail(@)])
         /\ UNCHANGED stats
    ELSE IF IsDir(fs, p)
    THEN /\ stack' = SetTop([Top EXCEPT !.queue = Tail(@),
                                        !.extraDirs = Append(@, p)])
         /\ UNCHANGED stats
    ELSE /\ stack' = SetTop([Top EXCEPT !.queue = Tail(@),
                                        !.extraFiles = Append(@, p)])
         /\ stats' = [stats EXCEPT !.ExtraFound = @ + 1,
                                   !.ExtraBytes = @ + fs[p].size]

\* one step of filepath.Walk(dst, ...): the callback on the next path, which skips
\* a path that cannot be accessed, with all below it, and does not fail
extraWalk ==
    /\ At("handleExtraFiles", "walk")
    /\ Top.queue # <<>>
    /\ \/ /\ extraVisit(Head(Top.queue))
          /\ UNCHANGED <<faults, log>>
       \/ /\ faults > 0
          /\ faults' = faults - 1
          /\ log' = Append(log, Event("walk failed", Head(Top.queue), 0))
          /\ stack' = SetTop([Top EXCEPT !.queue = Tail(@)])
          /\ UNCHANGED stats
    /\ ret' = "none"
    /\ UNCHANGED <<fs, fs0, args, opts, handles, out, results>>

\* the extra entries are deleted with detection alone
extraReportDeleting ==
    /\ At("handleExtraFiles", "walk")
    /\ Top.queue = <<>>
    /\ stats' = [stats EXCEPT !.ExtraFound = @ + Len(Top.extraDirs)]
    /\ out' = [out EXCEPT !.extraFiles = Top.extraFiles, !.extraDirs = Top.extraDirs]
    /\ stack' = SetTop([Top EXCEPT !.pc = "delete",
                                   !.delFiles = Top.extraFiles,
                                   !.delDirs = Top.extraDirs])
    /\ ret' = "none"
    /\ UNCHANGED <<fs, fs0, args, opts, handles, faults, log, results>>

\* the directory statistics and the report of the extra entries
extraReport ==
    /\ At("handleExtraFiles", "walk")
    /\ Top.queue = <<>>
    /\ stats' = [stats EXCEPT !.ExtraFound = @ + Len(Top.extraDirs)]
    /\ out' = [out EXCEPT !.extraFiles = Top.extraFiles, !.extraDirs = Top.extraDirs]
    /\ stack' = SetTop([Top EXCEPT
                    !.pc = "delete",
                    !.delFiles = IF opts.DeleteExtra THEN Top.extraFiles ELSE <<>>,
                    !.delDirs = IF opts.DeleteExtra THEN Top.extraDirs ELSE <<>>])
    /\ ret' = "none"
    /\ UNCHANGED <<fs, fs0, args, opts, handles, faults, log, results>>

\* a failure to remove an extra file is returned as the error of handleExtraFiles
extraDeleteFileAborting ==
    /\ At("handleExtraFiles", "delete")
    /\ Top.delFiles # <<>>
    /\ LET file == Head(Top.delFiles) IN
       \/ /\ fs' = RemoveAll(fs, file)
          /\ stats' = [stats EXCEPT !.ExtraDeleted = @ + 1]
          /\ out' = [out EXCEPT !.deleted = Append(@, file)]
          /\ log' = Append(log, Event("remove", file, 0))
          /\ stack' = SetTop([Top EXCEPT !.delFiles = Tail(@)])
          /\ ret' = "none"
          /\ UNCHANGED faults
       \/ /\ faults > 0
          /\ faults' = faults - 1
          /\ log' = Append(log, Event("remove failed", file, 0))
          /\ Return("err")
          /\ UNCHANGED <<fs, stats, out>>
    /\ UNCHANGED <<fs0, args, opts, handles, results>>

\* os.Remove(file) for the next extra file; a failure is a warning
extraDeleteFile ==
    /\ At("handleExtraFiles", "delete")
    /\ Top.delFiles # <<>>
    /\ LET file == Head(Top.delFiles) IN
       \/ /\ fs' = RemoveAll(fs, file)
          /\ stats' = [stats EXCEPT !.ExtraDeleted = @ + 1]
          /\ out' = [out EXCEPT !.deleted = Append(@, file)]
          /\ log' = Append(log, Event("remove", file, 0))
          /\ UNCHANGED faults
       \/ /\ faults > 0
          /\ faults' = faults - 1
          /\ log' = Append(log, Event("remove failed", file, 0))
          /\ UNCHANGED <<fs, stats, out>>
    /\ stack' = SetTop([Top EXCEPT !.delFiles = Tail(@)])
    /\ ret' = "none"
    /\ UNCHANGED <<fs0, args, opts, handles, results>>

\* an extra directory is removed while extra files are still to be removed
extraDeleteDirFirst ==
    /\ At("handleExtraFiles", "delete")
    /\ Top.delDirs # <<>>
    /\ LET dir == Head(Top.delDirs) IN
       \/ /\ fs' = RemoveAll(fs, dir)
          /\ stats' = [stats EXCEPT !.ExtraDeleted = @ + 1]
          /\ out' = [out EXCEPT !.deleted = Append(@, dir)]
          /\ log' = Append(log, Event("removeall", dir, 0))
          /\ UNCHANGED faults
       \/ /\ faults > 0
          /\ faults' = faults - 1
          /\ log' = Append(log, Event("removeall failed", dir, 0))
          /\ UNCHANGED <<fs, stats, out>>
    /\ stack' = SetTop([Top EXCEPT !.delDirs = Tail(@)])
    /\ ret' = "none"
    /\ UNCHANGED <<fs0, args, opts, handles, results>>

\* os.RemoveAll(dir) for the next extra directory, after the files; a failure is a warning
extraDeleteDir ==
    /\ At("handleExtraFiles", "delete")
    /\ Top.delFiles = <<>>
    /\ Top.delDirs # <<>>
    /\ LET dir == Head(Top.delDirs) IN
       \/ /\ fs' = RemoveAll(fs, dir)
          /\ stats' = [stats EXCEPT !.ExtraDeleted = @ + 1]
          /\ out' = [out EXCEPT !.deleted = Append(@, dir)]
          /\ log' = Append(log, Event("removeall", dir, 0))
          /\ UNCHANGED faults
       \/ /\ faults > 0
          /\ faults' = faults - 1
          /\ log' = Append(log, Event("removeall failed", dir, 0))
          /\ UNCHANGED <<fs, stats, out>>
    /\ stack' = SetTop([Top EXCEPT !.delDirs = Tail(@)])
    /\ ret' = "none"
    /\ UNCHANGED <<fs0, args, opts, handles, results>>

extraReturn ==
    /\ At("handleExtraFiles", "delete")
    /\ Top.delFiles = <<>>
    /\ Top.delDirs = <<>>
    /\ Return("ok")
    /\ UNCHANGED <<fs, fs0, stats, args, opts, handles, faults, out, log, results>>

ExtraActions ==
    \/ extraStart
    \/ extraWalk
    \/ extraReport
    \/ extraDeleteFile
    \/ extraDeleteDir
    \/ extraReturn

-----------------------------------------------------------------------------
(* run *)

Result(r) == [ret |-> r, stats |-> stats, out |-> out]

Sources == args.sources

Destination == args.destination

\* the source is always placed inside the destination
TargetPathInside(source, isDestDir) == Join(Destination, Base(source))

\* targetPath of the source: inside the destination, or the destination as it is
TargetPath(source, isDestDir) ==
    IF Len(Sources) = 1 /\ ~isDestDir THEN Destination
    ELSE Join(Destination, Base(source))

\* the process ends: its error value, its statistics and its output
Exit(r) ==
    /\ results' = Append(results, Result(r))
    /\ stack' = <<>>
    /\ ret' = "none"

\* only the first source is validated before the copying starts
runStartFirstOnly ==
    /\ At("run", "start")
    /\ IF ~Exists(fs, Sources[1])
       THEN Exit("err") /\ UNCHANGED stats
       ELSE /\ stack' = SetTop([Top EXCEPT !.pc = "loop",
                                           !.destErr = ~Exists(fs, Destination),
                                           !.isDestDir = IsDir(fs, Destination),
                                           !.idx = 1])
            /\ stats' = ZeroStats
            /\ ret' = "none"
            /\ UNCHANGED results
    /\ UNCHANGED <<fs, fs0, args, opts, handles, faults, out, log>>

\* the validation of the sources and of the destination, and the statistics
runStart ==
    /\ At("run", "start")
    /\ IF \E i \in 1..Len(Sources) : ~Exists(fs, Sources[i])
       THEN Exit("err") /\ UNCHANGED stats
       ELSE IF Len(Sources) > 1 /\ IsFile(fs, Destination)
       THEN Exit("err") /\ UNCHANGED stats
       ELSE /\ stack' = SetTop([Top EXCEPT !.pc = "loop",
                                           !.destErr = ~Exists(fs, Destination),
                                           !.isDestDir = IsDir(fs, Destination),
                                           !.idx = 1])
            /\ stats' = ZeroStats
            /\ ret' = "none"
            /\ UNCHANGED results
    /\ UNCHANGED <<fs, fs0, args, opts, handles, faults, out, log>>

\* one iteration of the loop over the sources: the target path and the call
runCopy ==
    /\ At("run", "loop")
    /\ ret # "err"
    /\ Top.idx <= Len(Sources)
    /\ IF Len(Sources) > 1 /\ Top.destErr /\ ~MkdirAllOk(fs, Destination)
       THEN Exit("err") /\ UNCHANGED <<fs, log>>
       ELSE /\ fs' = IF Len(Sources) > 1 /\ Top.destErr
                     THEN MkdirAll(fs, Destination) ELSE fs
            /\ log' = Append(IF fs' # fs THEN Append(log, Event("mkdir", Destination, 0))
                             ELSE log,
                             Event("copyRecursively",
                                   TargetPath(Sources[Top.idx], Top.isDestDir), Top.idx))
            /\ stack' = Append(SetTop([Top EXCEPT !.idx = @ + 1]),
                               Frame("copyRecursively", "start", Sources[Top.idx],
                                     TargetPath(Sources[Top.idx], Top.isDestDir)))
            /\ ret' = "none"
            /\ UNCHANGED results
    /\ UNCHANGED <<fs0, stats, args, opts, handles, faults, out>>

\* the error of copyRecursively is passed over and run goes on to reconcile
runAbortReconciling ==
    /\ At("run", "loop")
    /\ ret = "err"
    /\ IF Len(Sources) = 1 /\ opts.DetectExtra
       THEN stack' = Append(SetTop([Top EXCEPT !.pc = "summary"]),
                            [fn |-> "handleExtraFiles", pc |-> "start",
                             src |-> Sources[1],
                             dst |-> IF Top.isDestDir
                                     THEN Join(Destination, Base(Sources[1]))
                                     ELSE Destination,
                             sourceItems |-> {}, queue |-> <<>>,
                             extraFiles |-> <<>>, extraDirs |-> <<>>,
                             delFiles |-> <<>>, delDirs |-> <<>>])
       ELSE stack' = SetTop([Top EXCEPT !.pc = "summary"])
    /\ ret' = "none"
    /\ UNCHANGED <<fs, fs0, stats, args, opts, handles, faults, out, log, results>>

\* copyRecursively returned an error: return it
runAbort ==
    /\ At("run", "loop")
    /\ ret = "err"
    /\ Exit("err")
    /\ UNCHANGED <<fs, fs0, stats, args, opts, handles, faults, out, log>>

\* detection also runs for several sources, on their first
ShouldReconcileAnyCount == opts.DetectExtra

\* if len(sources) == 1 && syncOptions.DetectExtra
ShouldReconcile == Len(Sources) = 1 /\ opts.DetectExtra

\* after the loop: handleExtraFiles for a single source when detection is on
runExtra ==
    /\ At("run", "loop")
    /\ ret # "err"
    /\ Top.idx > Len(Sources)
    /\ IF ShouldReconcile
       THEN stack' = Append(SetTop([Top EXCEPT !.pc = "summary"]),
                            [fn |-> "handleExtraFiles", pc |-> "start",
                             src |-> Sources[1],
                             dst |-> IF Top.isDestDir
                                     THEN Join(Destination, Base(Sources[1]))
                                     ELSE Destination,
                             sourceItems |-> {}, queue |-> <<>>,
                             extraFiles |-> <<>>, extraDirs |-> <<>>,
                             delFiles |-> <<>>, delDirs |-> <<>>])
       ELSE stack' = SetTop([Top EXCEPT !.pc = "summary"])
    /\ ret' = "none"
    /\ UNCHANGED <<fs, fs0, stats, args, opts, handles, faults, out, log, results>>

\* the error of handleExtraFiles, or showSummary and return nil
runSummary ==
    /\ At("run", "summary")
    /\ IF ret = "err"
       THEN Exit("err") /\ UNCHANGED <<out, log>>
       ELSE /\ out' = [out EXCEPT !.summary = TRUE]
            /\ log' = Append(log, Event("showSummary", Root, 0))
            /\ results' = Append(results, [ret |-> "ok", stats |-> stats, out |-> out'])
            /\ stack' = <<>>
            /\ ret' = "none"
    /\ UNCHANGED <<fs, fs0, stats, args, opts, handles, faults>>

RunFrame ==
    [fn |-> "run", pc |-> "start", destErr |-> FALSE, isDestDir |-> FALSE, idx |-> 0]

\* the command is given again, with the same arguments
invoke ==
    /\ stack = <<>>
    /\ results # <<>>
    /\ Len(results) < MaxRounds
    /\ stack' = <<RunFrame>>
    /\ out' = NoOut
    /\ log' = <<>>
    /\ handles' = {}
    /\ ret' = "none"
    /\ UNCHANGED <<fs, fs0, stats, args, opts, faults, results>>

RunActions ==
    \/ runStart
    \/ runCopy
    \/ runAbort
    \/ runExtra
    \/ runSummary
    \/ invoke

-----------------------------------------------------------------------------
(* A caller of copyRecursively(src, dst, stats): each call gets fresh statistics *)

callerCall ==
    /\ At("caller", "call")
    /\ stats' = ZeroStats
    /\ stack' = Append(SetTop([Top EXCEPT !.pc = "wait"]),
                       Frame("copyRecursively", "start", Top.src, Top.dst))
    /\ ret' = "none"
    /\ UNCHANGED <<fs, fs0, args, opts, handles, faults, out, log, results>>

callerReturn ==
    /\ At("caller", "wait")
    /\ results' = Append(results, Result(ret))
    /\ stack' = IF Len(results') < Top.calls
                THEN SetTop([Top EXCEPT !.pc = "call"])
                ELSE <<>>
    /\ ret' = "none"
    /\ UNCHANGED <<fs, fs0, stats, args, opts, handles, faults, out, log>>

Caller(src, dst, n) ==
    [fn |-> "caller", pc |-> "call", src |-> src, dst |-> dst, calls |-> n]

-----------------------------------------------------------------------------
(* Initial filesystems *)

S == <<"s">>

T == <<"t">>

D == <<"d">>

TS == <<"t", "s">>

\* the working directory, in which the arguments are resolved
Cwd == Root :> DirEntry(FATMin + 10 * Second)

Sizes == 0..MaxSize

\* source times: before the range by more and by less than the tolerance, inside,
\* inside and a second ago, after
SrcTimes ==
    {FATMin - 10 * Second, FATMin - Second, FATMin + 10 * Second, Now - Second,
     FATMax + 10 * Second}

\* differences between the source's and the destination's time, around 1 s and 5 s
Drifts ==
    {0, 1, Second, Tolerance - 1, Tolerance, Tolerance + 1, Tolerance + Second,
     -Second, -Tolerance, -(Tolerance + 1)}

NoFile == [kind |-> "none"]

Entry(p, e) == IF e.kind = "none" THEN EmptyFS ELSE p :> e

\* one source file and a destination that is missing, or a file or a directory at
\* some drift
FileInit ==
    /\ \E sz \in Sizes, mt \in SrcTimes :
         \E d \in {NoFile} \cup {FileEntry(dsz, mt + dr) : dsz \in Sizes, dr \in Drifts}
                           \cup {DirEntry(mt + dr) : dr \in Drifts} :
            fs = Cwd @@ (S :> FileEntry(sz, mt)) @@ Entry(D, d)
    /\ fs0 = fs
    /\ stack = <<Caller(S, D, MaxRounds)>>
    /\ ret = "none"
    /\ stats = ZeroStats
    /\ args = [sources |-> <<S>>, destination |-> D]
    /\ opts = [DetectExtra |-> FALSE, DeleteExtra |-> FALSE]
    /\ handles = {}
    /\ faults = MaxFaults
    /\ out = NoOut
    /\ log = <<>>
    /\ results = <<>>

\* the subtree of a directory: a file a, a directory u and a file b in u
Tree(root, rootEntry, a, u, b) ==
    (root :> rootEntry) @@ Entry(Join(root, "a"), a) @@ Entry(Join(root, "u"), u)
        @@ (IF u.kind = "dir" THEN Entry(Join(Join(root, "u"), "b"), b) ELSE EmptyFS)

TreeSet(root, rootTime, Attrs, dirTime) ==
    {Tree(root, DirEntry(rootTime), a, u, b) :
        a \in {NoFile} \cup Attrs, u \in {NoFile, DirEntry(dirTime)}, b \in {NoFile} \cup Attrs}

\* files of a source: one dated before the FAT range, one inside it
SrcAttrs == {FileEntry(1, FATMin - 10 * Second), FileEntry(MaxSize, FATMin + 10 * Second)}

\* files of a destination: what a copy of each of the source files leaves
DstAttrs == {FileEntry(1, FATMin), FileEntry(MaxSize, FATMin + 10 * Second)}

\* the first source: missing, a file, or a directory whose subdirectory is dated
\* after the range
SourceSet ==
    {EmptyFS} \cup {S :> e : e \in SrcAttrs}
        \cup TreeSet(S, FATMin + 10 * Second, SrcAttrs, FATMax + 10 * Second)

\* the second source: missing, a file or a directory with one file
SecondSet ==
    {EmptyFS, T :> FileEntry(1, FATMin + 10 * Second),
     Tree(T, DirEntry(FATMin - 10 * Second), FileEntry(1, FATMin + 10 * Second), NoFile, NoFile)}

\* a second source of the first's base name, in the directory t: a file, or a
\* directory with one file
SameNameSet ==
    {(T :> DirEntry(FATMin + 10 * Second)) @@ sub :
        sub \in {TS :> FileEntry(1, FATMin + 10 * Second),
                 Tree(TS, DirEntry(FATMin - 10 * Second), FileEntry(1, FATMin + 10 * Second),
                      NoFile, NoFile)}}

\* the destination of a single source: missing, a file, or a directory in which
\* the source's name is missing, a file or a tree, alone or beside another file
DestSet ==
    {EmptyFS, D :> FileEntry(1, FATMin)}
        \cup {(D :> DirEntry(Now)) @@ sub :
                sub \in {EmptyFS} \cup {Join(D, "s") :> e : e \in DstAttrs}
                          \cup TreeSet(Join(D, "s"), Now, DstAttrs, Now)}
        \cup {(D :> DirEntry(Now)) @@ (Join(D, "a") :> FileEntry(1, FATMin)) @@ sub :
                sub \in {EmptyFS, Join(D, "s") :> FileEntry(1, FATMin)}}

\* the destination of two sources: missing, a file, an empty or a filled directory
DestSetMulti ==
    {EmptyFS, D :> FileEntry(1, FATMin), D :> DirEntry(Now),
     (D :> DirEntry(Now))
        @@ Tree(Join(D, "s"), DirEntry(Now), FileEntry(1, FATMin), NoFile, NoFile)
        @@ (Join(D, "t") :> FileEntry(1, FATMin + 10 * Second))}

\* a source directory that is, or that holds, the destination
SelfSet ==
    {Tree(S, DirEntry(FATMin + 10 * Second), a, DirEntry(FATMin + 10 * Second), NoFile) :
        a \in {NoFile, FileEntry(1, FATMin + 10 * Second)}}

SelfDestinations == {S, Join(S, "u")}

OptionSet ==
    {[DetectExtra |-> FALSE, DeleteExtra |-> FALSE],
     [DetectExtra |-> TRUE, DeleteExtra |-> FALSE],
     [DetectExtra |-> TRUE, DeleteExtra |-> TRUE]}

Init ==
    /\ \/ /\ args = [sources |-> <<S>>, destination |-> D]
          /\ \E s \in SourceSet, d \in DestSet : fs = Cwd @@ s @@ d
          /\ opts \in OptionSet
       \/ /\ args = [sources |-> <<S, T>>, destination |-> D]
          /\ \E s \in SourceSet, t \in SecondSet, d \in DestSetMulti : fs = Cwd @@ s @@ t @@ d
          /\ opts \in OptionSet
       \/ /\ args = [sources |-> <<S, TS>>, destination |-> D]
          /\ \E s \in SourceSet, t \in SameNameSet, d \in {EmptyFS, D :> DirEntry(Now)} :
                fs = Cwd @@ s @@ t @@ d
          /\ opts = [DetectExtra |-> FALSE, DeleteExtra |-> FALSE]
       \/ /\ \E dest \in SelfDestinations : args = [sources |-> <<S>>, destination |-> dest]
          /\ \E s \in SelfSet : fs = Cwd @@ s
          /\ opts = [DetectExtra |-> FALSE, DeleteExtra |-> FALSE]
    /\ fs0 = fs
    /\ stack = <<RunFrame>>
    /\ ret = "none"
    /\ stats = ZeroStats
    /\ handles = {}
    /\ faults = MaxFaults
    /\ out = NoOut
    /\ log = <<>>
    /\ results = <<>>

Next ==
    \/ RunActions
    \/ CopyActions
    \/ ExtraActions

\* the program, run up to MaxRounds times with the same arguments
Spec == Init /\ [][Next]_vars

FileNext ==
    \/ callerCall
    \/ callerReturn
    \/ copyRecursively
    \/ copyFileCheck
    \/ copyFileSkip
    \/ copyFileOpen
    \/ copyFileCopy
    \/ copyFileSync
    \/ copyFileChtimes
    \/ copyFileStats

\* copyRecursively(src, dst, stats) called on a file, MaxRounds times in succession
FileSpec == FileInit /\ [][FileNext]_vars

-----------------------------------------------------------------------------
(* Properties of copyFile and needsUpdate, under FileSpec *)

Done == stack = <<>>

\* the n-th call of the caller has just returned
Returned(n) == Len(results) = n /\ (Done \/ At("caller", "call"))

\* needsUpdate has just returned to copyFile without an error
AfterNeedsUpdate == stack # <<>> /\ Top.fn = "copyFile" /\ Top.pc \in {"open", "skip"}

Drift(f, dst, srcInfo) == Abs(srcInfo.mtime - f[dst].mtime)

UpToDate0 ==
    /\ Exists(fs0, D)
    /\ fs0[D].size = fs0[S].size
    /\ Drift(fs0, D, fs0[S]) <= 5 * Second

Stale0 ==
    \/ ~Exists(fs0, D)
    \/ fs0[D].size # fs0[S].size
    \/ Drift(fs0, D, fs0[S]) > 5 * Second

\* C1: a file whose destination exists with the same size and a modification time
\* within 5 seconds is not written (nothing of the filesystem changes, no system
\* call that writes is made), FilesSkipped becomes 1, FilesCopied and BytesCopied stay 0
C1_SkipWritesNothing ==
    UpToDate0 =>
        /\ fs = fs0
        /\ log = <<>>
        /\ stats.FilesCopied = 0 /\ stats.BytesCopied = 0
        /\ Len(results) >= 1 =>
              /\ results[1].ret = "ok"
              /\ results[1].stats.FilesSkipped = 1
              /\ results[1].stats.FilesCopied = 0
              /\ results[1].stats.BytesCopied = 0

C1_Witness ==
    /\ Returned(1)
    /\ UpToDate0
    /\ Drift(fs0, D, fs0[S]) = 5 * Second
    /\ results[1].stats.FilesSkipped = 1

\* C2: a file whose destination is missing, of another size or more than 5 seconds
\* off is, after a successful copyFile, of the source's size and of the sanitized
\* source time; FilesCopied is 1 and BytesCopied the size of the source
C2_CopyMakesEqual ==
    (Stale0 /\ Returned(1) /\ results[1].ret = "ok") =>
        /\ IsFile(fs, D)
        /\ fs[D].size = fs0[S].size
        /\ fs[D].mtime = sanitizeFATTime(fs0[S].mtime)
        /\ results[1].stats.FilesCopied = 1
        /\ results[1].stats.FilesSkipped = 0
        /\ results[1].stats.BytesCopied = fs0[S].size

C2_Witness ==
    /\ Returned(1)
    /\ results[1].ret = "ok"
    /\ IsFile(fs0, D)
    /\ fs0[D].size # fs0[S].size
    /\ fs0[D].mtime = fs0[S].mtime
    /\ fs0[S].mtime < FATMin
    /\ fs[D].mtime = FATMin

\* C3: the second of two successive successful copyRecursively(src, dst) of an
\* unchanged source copies no file and skips every file, whatever the source's time
C3_Idempotent ==
    (Len(results) >= 2 /\ results[1].ret = "ok" /\ results[2].ret = "ok") =>
        /\ results[2].stats.FilesCopied = 0
        /\ results[2].stats.FilesSkipped = 1

\* C5: needsUpdate returns true exactly when the destination does not exist, the
\* sizes differ or the times differ by strictly more than 5 seconds
C5_NeedsUpdateExactly ==
    AfterNeedsUpdate =>
        /\ Top.needsCopy <=>
              \/ ~Exists(fs, Top.dst)
              \/ Top.info.size # fs[Top.dst].size
              \/ Drift(fs, Top.dst, Top.info) > 5 * Second
        /\ ( /\ Exists(fs, Top.dst)
             /\ Top.info.size = fs[Top.dst].size
             /\ Drift(fs, Top.dst, Top.info) = 5 * Second ) => ~Top.needsCopy

C5_Witness ==
    /\ AfterNeedsUpdate
    /\ Exists(fs, Top.dst)
    /\ Top.info.size = fs[Top.dst].size
    /\ Drift(fs, Top.dst, Top.info) = 5 * Second
    /\ ~Top.needsCopy

\* C6 as stated: with an existing destination a drift of 1 second or less never
\* triggers a copy and a drift of more than 5 seconds always does, whatever the sizes
C6_DriftAloneDecides ==
    (AfterNeedsUpdate /\ Exists(fs, Top.dst)) =>
        /\ Drift(fs, Top.dst, Top.info) <= Second => ~Top.needsCopy
        /\ Drift(fs, Top.dst, Top.info) > 5 * Second => Top.needsCopy

\* C6 as amended: with an existing destination of the same size a drift of 1 second
\* or less never triggers a copy; a drift of more than 5 seconds always triggers one,
\* whether or not the sizes match
C6_DriftWithinSameSize ==
    (AfterNeedsUpdate /\ Exists(fs, Top.dst)) =>
        /\ ( /\ Top.info.size = fs[Top.dst].size
             /\ Drift(fs, Top.dst, Top.info) <= Second ) => ~Top.needsCopy
        /\ Drift(fs, Top.dst, Top.info) > 5 * Second => Top.needsCopy

C6_Witness ==
    /\ AfterNeedsUpdate
    /\ Exists(fs, Top.dst)
    /\ Top.info.size = fs[Top.dst].size
    /\ fs[Top.dst].mtime - Top.info.mtime = Second
    /\ ~Top.needsCopy

-----------------------------------------------------------------------------
(* Properties of the program, under Spec *)

NumFiles(f, root) == Cardinality({q \in Under(f, root) : f[q].kind = "file"})

Range(seq) == {seq[i] : i \in DOMAIN seq}

\* C4: smartcopy <srcdir> <dst> given twice, <dst> missing before the first run:
\* the first run copies every file, the second copies none, skips every file and
\* creates no destination path
C4_SecondRunSkipsAll ==
    ( /\ Sources = <<S>> /\ IsDir(fs0, S) /\ ~Exists(fs0, D)
      /\ Len(results) >= 2 /\ results[1].ret = "ok" /\ results[2].ret = "ok" ) =>
        /\ results[1].stats.FilesCopied = NumFiles(fs0, S)
        /\ results[2].stats.FilesCopied = 0
        /\ results[2].stats.FilesSkipped = NumFiles(fs0, S)
        /\ DOMAIN fs = DOMAIN fs0 \cup {D \o r : r \in RelPaths(fs0, S) \cup {<<>>}}

Clamped(t) == IF t < FATMin THEN FATMin ELSE IF t > FATMax THEN FATMax ELSE t

SourceEntries == {q \in DOMAIN fs0 : \E i \in DOMAIN Sources : IsPrefix(Sources[i], q)}

\* C7: for the time of every source entry sanitizeFATTime gives the floor below the
\* range, the ceiling above it and its argument inside; its result is in the range and a fixed point; every time the
\* program sets with os.Chtimes is such a result for the time of a source entry
C7_TimesAreSanitized ==
    /\ \A q \in SourceEntries :
          LET t == fs0[q].mtime IN
          /\ sanitizeFATTime(t) = Clamped(t)
          /\ sanitizeFATTime(t) \in FATMin..FATMax
          /\ sanitizeFATTime(sanitizeFATTime(t)) = sanitizeFATTime(t)
    /\ \A i \in DOMAIN log :
          log[i].op = "chtimes" =>
             /\ log[i].arg \in FATMin..FATMax
             /\ \E q \in SourceEntries : log[i].arg = Clamped(fs0[q].mtime)
             /\ sanitizeFATTime(log[i].arg) = log[i].arg

C7_Witness ==
    /\ \E i \in DOMAIN log : log[i].op = "chtimes" /\ log[i].arg = FATMax
    /\ \E i \in DOMAIN log : log[i].op = "chtimes" /\ log[i].arg = FATMin
    /\ \E q \in SourceEntries : fs0[q].mtime > FATMax
    /\ \E q \in SourceEntries : fs0[q].mtime < FATMin
    /\ IsDir(fs, <<"d", "u">>) /\ fs[<<"d", "u">>].mtime = FATMax

\* handleExtraFiles has reported what it found and removed nothing yet
JustReported ==
    /\ At("handleExtraFiles", "delete")
    /\ \A i \in DOMAIN log : log[i].op \notin {"remove", "removeall", "remove failed", "removeall failed"}

Reported == {Rel(Top.dst, p) : p \in Range(Top.extraFiles) \cup Range(Top.extraDirs)}

Difference(f, dst, src) == RelPaths(f, dst) \ RelPaths(f, src)

\* the entries of the difference that lie in the root or in a directory of the source
Topmost(f, dst, src) ==
    {r \in Difference(f, dst, src) : Len(r) = 1 \/ Dir(r) \in RelPaths(f, src)}

\* the paths the walk of the destination could not access
WalkFailures == {log[i].path : i \in {j \in DOMAIN log : log[j].op = "walk failed"}}

Inaccessible(p) == \E e \in WalkFailures : IsPrefix(e, p)

\* C8 as stated: the entries reported as extra are all relative paths under the
\* destination root that are no relative path under the source root
C8_ReportedIsDifference ==
    JustReported => Reported = Difference(fs, Top.dst, Top.src)

\* C8 as amended: the entries reported as extra are the relative paths under the
\* destination root, absent under the source root, whose parent is the root or
\* present under the source root, but for those the walk could not access or that lie
\* below such a path; each is reported once, as a file or as a directory
C8_ReportedIsTopmost ==
    JustReported =>
        /\ Reported = {r \in Topmost(fs, Top.dst, Top.src) : ~Inaccessible(Top.dst \o r)}
        /\ Len(Top.extraFiles) + Len(Top.extraDirs) = Cardinality(Reported)
        /\ out.extraFiles = Top.extraFiles /\ out.extraDirs = Top.extraDirs
        /\ \A p \in Range(Top.extraFiles) : IsFile(fs, p)
        /\ \A p \in Range(Top.extraDirs) : IsDir(fs, p)

C8_Witness ==
    /\ JustReported
    /\ Top.extraDirs # <<>>
    /\ \E p \in Range(Top.extraDirs) : Children(fs, p) # {}
    /\ Top.extraFiles # <<>>
    /\ WalkFailures = {}
    /\ Reported # Difference(fs, Top.dst, Top.src)

\* handleExtraFiles has returned nil to run, which now returns nil
Reconciled == At("run", "summary") /\ ret = "ok"

RunTarget == IF stack[1].isDestDir THEN Join(Destination, Base(Sources[1])) ELSE Destination

FailedRemovals ==
    {log[i].path : i \in {j \in DOMAIN log : log[j].op \in {"remove failed", "removeall failed"}}}

\* C9 as stated: after a successful run with -D on a directory source the relative
\* paths under the destination root are those under the source root
C9_NoExtraRemains ==
    (Reconciled /\ opts.DeleteExtra /\ IsDir(fs, Sources[1])) =>
        RelPaths(fs, RunTarget) = RelPaths(fs, Sources[1])

\* C9 as amended: after a successful run with -D on a single directory source every
\* relative path under the destination root that is absent under the source root is,
\* or lies below, an extra entry whose removal failed or a path the walk could not
\* access; if every removal succeeded and the walk could access every path, the
\* relative paths under the destination root are those under the source root
C9_ExtraRemainsOnlyWhereRemovalFailed ==
    (Reconciled /\ opts.DeleteExtra /\ IsDir(fs, Sources[1])) =>
        /\ RelPaths(fs, Sources[1]) \subseteq RelPaths(fs, RunTarget)
        /\ \A r \in Difference(fs, RunTarget, Sources[1]) :
              \E e \in FailedRemovals \cup WalkFailures : IsPrefix(e, RunTarget \o r)
        /\ (stats.ExtraDeleted = stats.ExtraFound /\ WalkFailures = {}) =>
              RelPaths(fs, RunTarget) = RelPaths(fs, Sources[1])

C9_Witness ==
    /\ Reconciled /\ opts.DeleteExtra /\ IsDir(fs, Sources[1])
    /\ stats.ExtraDeleted = 2
    /\ \E i \in DOMAIN log : log[i].op = "removeall"
    /\ RelPaths(fs, RunTarget) = RelPaths(fs, Sources[1])

Calls == {i \in DOMAIN log : log[i].op = "handleExtraFiles"}

CopyOps == {"mkdir", "create", "write", "close", "chtimes"}

\* C10 as stated: with detection enabled handleExtraFiles is invoked once for every
\* (source, target) pair of a run that reaches its summary, with one or several sources
C10_OncePerSource ==
    (out.summary /\ opts.DetectExtra) => Cardinality(Calls) = Len(Sources)

\* C10 as amended: with detection enabled and exactly one source handleExtraFiles is
\* invoked exactly once, for that source and its target, after the loop over the
\* sources has ended and all copies are made and before the summary; in a run with
\* several sources it is not invoked
C10_OnceForSingleSource ==
    /\ Cardinality(Calls) <= 1
    /\ \A i \in Calls :
          /\ ShouldReconcile
          /\ \A j \in DOMAIN log :
                /\ log[j].op \in CopyOps => j < i
                /\ log[j].op = "showSummary" => j > i
          /\ stack # <<>> => log[i].path = RunTarget
    /\ (stack # <<>> /\ Top.fn = "handleExtraFiles") =>
          /\ Len(stack) = 2
          /\ stack[1].pc = "summary" /\ stack[1].idx = Len(Sources) + 1
          /\ Top.src = Sources[1] /\ Top.dst = RunTarget
    /\ (out.summary /\ opts.DetectExtra) =>
          Cardinality(Calls) = IF Len(Sources) = 1 THEN 1 ELSE 0

C10_Witness ==
    /\ out.summary /\ opts.DetectExtra
    /\ Len(Sources) = 1
    /\ Cardinality(Calls) = 1
    /\ \E j \in DOMAIN log : log[j].op = "write"

RemovalOps == {"remove", "removeall"}

FailedRemovalOps == {"remove failed", "removeall failed"}

\* the extra entries whose removal was attempted, and those removed
Attempted == {log[i].path : i \in {j \in DOMAIN log : log[j].op \in RemovalOps \cup FailedRemovalOps}}

Removed == {log[i].path : i \in {j \in DOMAIN log : log[j].op \in RemovalOps}}

\* C11: with deletion enabled a removal that fails does not end the reconciliation:
\* the removal of every extra file and directory found is attempted, each once,
\* those that did not fail are gone, handleExtraFiles returns nil and ExtraDeleted
\* is the number of removals that succeeded
C11_DeleteFailureContinues ==
    /\ (At("handleExtraFiles", "delete") /\ opts.DeleteExtra) =>
          /\ Attempted \cup Range(Top.delFiles) \cup Range(Top.delDirs)
                = Range(Top.extraFiles) \cup Range(Top.extraDirs)
          /\ Attempted \cap (Range(Top.delFiles) \cup Range(Top.delDirs)) = {}
          /\ stats.ExtraDeleted = Cardinality(Removed)
          /\ ret # "err"
    /\ (At("run", "summary") /\ opts.DeleteExtra /\ Calls # {}) =>
          /\ ret = "ok"
          /\ Attempted = Range(out.extraFiles) \cup Range(out.extraDirs)
          /\ Cardinality({j \in DOMAIN log : log[j].op \in RemovalOps \cup FailedRemovalOps})
                = Len(out.extraFiles) + Len(out.extraDirs)
          /\ Removed = Attempted \ FailedRemovals
          /\ \A p \in Removed : ~Exists(fs, p)
          /\ stats.ExtraDeleted = Cardinality(Removed)
          /\ out.deleted # <<>> => Range(out.deleted) = Removed

C11_Witness ==
    /\ At("run", "summary") /\ opts.DeleteExtra /\ ret = "ok"
    /\ \E i, j \in DOMAIN log :
          /\ i < j
          /\ log[i].op = "remove failed"
          /\ log[j].op = "removeall"
    /\ stats.ExtraDeleted = 1
    /\ stats.ExtraFound = 2

\* in the copy phase a call has just returned an error to copyDirectory or to run
CopyFailed ==
    /\ stack # <<>> /\ stack[1].fn = "run" /\ stack[1].pc = "loop"
    /\ Top.fn \in {"run", "copyDirectory"}
    /\ ret = "err"

\* C12: once the synchronization of an entry has failed, every further step returns
\* the error one level up: no sibling, no child of an ancestor and no later source is
\* visited, nothing is written, counted or opened, and the run ends with the error
C12_FailFast ==
    [][CopyFailed =>
          /\ fs' = fs /\ stats' = stats /\ log' = log /\ handles' = handles /\ out' = out
          /\ \/ /\ Len(stack) > 1
                /\ stack' = Pop
                /\ ret' = "err"
             \/ /\ Len(stack) = 1
                /\ stack' = <<>>
                /\ Len(results') = Len(results) + 1
                /\ results'[Len(results')].ret = "err"]_vars

C12_Witness ==
    /\ Len(results) = 1 /\ results[1].ret = "err" /\ stack = <<>>
    /\ Sources = <<S, T>> /\ Exists(fs0, T)
    /\ Exists(fs0, <<"s", "a">>) /\ Exists(fs0, <<"s", "u", "b">>)
    /\ ~Exists(fs0, <<"d", "s">>) /\ ~Exists(fs0, <<"d", "t">>)
    /\ \E i \in DOMAIN log : log[i].op = "write" /\ log[i].path = <<"d", "s", "a">>
    /\ Exists(fs, <<"d", "s", "a">>)
    /\ ~Exists(fs, <<"d", "s", "u">>)
    /\ ~Exists(fs, <<"d", "t">>)

\* the arguments that run rejects: a source that is missing, at any position, or
\* several sources and a destination that is a plain file
Invalid(f) ==
    \/ \E i \in DOMAIN Sources : ~Exists(f, Sources[i])
    \/ Len(Sources) > 1 /\ IsFile(f, Destination)

\* C13: a run whose arguments are rejected changes nothing of the filesystem: no
\* directory is created, no file copied or opened and nothing deleted, no system call
\* that writes is made, and the run returns an error
C13_ValidationFirst ==
    Invalid(fs0) =>
        /\ fs = fs0
        /\ log = <<>>
        /\ handles = {}
        /\ stats = ZeroStats
        /\ out = NoOut
        /\ \A i \in DOMAIN results : results[i].ret = "err"
        /\ stack # <<>> => (Len(stack) = 1 /\ At("run", "start"))

C13_Witness ==
    /\ Len(results) = 1 /\ results[1].ret = "err" /\ stack = <<>>
    /\ Sources = <<S, T>>
    /\ IsDir(fs0, S) /\ Exists(fs0, <<"s", "a">>)
    /\ ~Exists(fs0, T)
    /\ ~Exists(fs0, D)
    /\ fs = fs0

CopyFns == {"copyRecursively", "copyDirectory", "copyFile"}

\* run has called copyRecursively for a source and the call has not returned
Copying == Len(stack) >= 2 /\ stack[1].fn = "run" /\ stack[2].fn \in CopyFns

\* C14: the target of every source follows from the destination as it was before
\* the copying started: for one source the destination joined with the source's base
\* name if the destination was a directory and the destination itself otherwise; for
\* several sources always the destination joined with the base name, the destination
\* being a directory by then
C14_TargetFromInitialDestination ==
    /\ (At("run", "loop") /\ Top.idx = 1) =>
          /\ Top.isDestDir = IsDir(fs, Destination)
          /\ Top.destErr = ~Exists(fs, Destination)
    /\ Copying =>
          LET source == Sources[stack[1].idx - 1]
              wasDir == IF Len(results) = 0 THEN IsDir(fs0, Destination)
                        ELSE stack[1].isDestDir
          IN /\ stack[2].src = source
             /\ Len(Sources) = 1 =>
                   stack[2].dst = IF wasDir THEN Join(Destination, Base(source))
                                  ELSE Destination
             /\ Len(Sources) > 1 =>
                   /\ stack[2].dst = Join(Destination, Base(source))
                   /\ IsDir(fs, Destination)

C14_Witness ==
    /\ Copying /\ Len(results) = 0
    /\ Sources = <<S>>
    /\ ~Exists(fs0, D)
    /\ IsDir(fs, D)
    /\ stack[2].dst = D
    /\ Top.fn = "copyFile" /\ Top.dst = <<"d", "u", "b">>

\* C15: whenever no copyFile is running, every handle a copyFile opened is closed,
\* whichever way that copyFile returned
C15_HandlesClosed ==
    (stack = <<>> \/ Top.fn # "copyFile") => handles = {}

Counters(st) == <<st.FilesCopied, st.FilesSkipped, st.BytesCopied>>

\* the step in which a copyFile returns to its caller
CopyFileReturns == stack # <<>> /\ Top.fn = "copyFile" /\ stack' = Pop

\* C16 as stated: every copyFile, whether it returns nil or an error, increases
\* exactly one of FilesCopied and FilesSkipped by 1
C16_StatsOncePerInvocation ==
    [][CopyFileReturns =>
          \/ /\ stats'.FilesCopied = stats.FilesCopied + 1
             /\ stats'.FilesSkipped = stats.FilesSkipped
          \/ /\ stats'.FilesSkipped = stats.FilesSkipped + 1
             /\ stats'.FilesCopied = stats.FilesCopied]_vars

\* C16 as amended: a copyFile that returns nil changes the statistics once, as it
\* returns: FilesSkipped increases by 1 and nothing was written, or FilesCopied
\* increases by 1 and BytesCopied by the size of the file written; a copyFile that
\* returns an error leaves the three counters as they were; no other step after the
\* initialization of the statistics changes them
C16_StatsOnSuccessOnly ==
    [][/\ (CopyFileReturns /\ ret' = "ok") =>
             \/ /\ Counters(stats') = <<stats.FilesCopied, stats.FilesSkipped + 1,
                                         stats.BytesCopied>>
                /\ ~Top.needsCopy
             \/ /\ Counters(stats') = <<stats.FilesCopied + 1, stats.FilesSkipped,
                                         stats.BytesCopied + fs[Top.dst].size>>
                /\ fs[Top.dst].size = Top.info.size
                /\ Top.needsCopy
       /\ (CopyFileReturns /\ ret' = "err") => Counters(stats') = Counters(stats)
       /\ (~CopyFileReturns /\ ~At("run", "start")) => Counters(stats') = Counters(stats)
      ]_vars

C16_Witness ==
    /\ CopyFailed
    /\ stats.FilesCopied = 1 /\ stats.FilesSkipped = 0
    /\ stats.BytesCopied = MaxSize
    /\ Cardinality({i \in DOMAIN log : log[i].op = "create"}) = 2
    /\ Cardinality({i \in DOMAIN log : log[i].op = "write"}) = 2

\* -d without -D
DetectOnly == opts.DetectExtra /\ ~opts.DeleteExtra

\* the target of the single source of the first run
Target0 == IF IsDir(fs0, Destination) THEN Join(Destination, Base(Sources[1])) ELSE Destination

\* every file of the source has a file of its size and time at its place under dst
AllIdentical(f, src, dst) ==
    \A q \in Under(f, src) :
        f[q].kind = "file" =>
            /\ IsFile(f, dst \o Rel(src, q))
            /\ f[dst \o Rel(src, q)].size = f[q].size
            /\ f[dst \o Rel(src, q)].mtime = f[q].mtime

Running == stack # <<>> /\ stack[1].fn = "run" /\ stack[1].pc # "start"

\* the calls of copyRecursively that run has made
RunCalls == {m \in DOMAIN log : log[m].op = "copyRecursively"}

\* the call of run during which the i-th event of the log happened
CallOf(i) == CHOOSE m \in RunCalls : m < i /\ \A n \in RunCalls : n < i => n <= m

\* the source path that the path of the i-th event is the copy of
SourceAt(i) ==
    Sources[log[CallOf(i)].arg] \o Rel(log[CallOf(i)].path, log[i].path)

\* a later source of the run has the target of the call of the i-th event
TargetReused(i) == \E m \in RunCalls : m > i /\ log[m].path = log[CallOf(i)].path

\* the calls of os.Chtimes on a directory
DirStamps == {i \in DOMAIN log : log[i].op = "chtimes" /\ IsDir(fs, log[i].path)}

\* the file t holds what copyFile leaves of the source file c, or what it skips
Synced(c, t) ==
    /\ IsFile(fs, t)
    /\ fs[t].size = fs[c].size
    /\ \/ fs[t].mtime = sanitizeFATTime(fs[c].mtime)
       \/ Abs(fs[c].mtime - fs[t].mtime) <= Tolerance

\* when the i-th event set the time of a directory, all below the source directory
\* was synchronized: every file is at its place, every directory had its time set
ContentsBefore(i) ==
    LET p == log[i].path
        q == SourceAt(i)
    IN /\ IsDir(fs, q)
       /\ ~TargetReused(i) =>
             \A c \in Under(fs, q) \ {q} :
                 IF fs[c].kind = "dir"
                 THEN /\ IsDir(fs, p \o Rel(q, c))
                      /\ \E k \in DirStamps : k < i /\ log[k].path = p \o Rel(q, c)
                 ELSE Synced(c, p \o Rel(q, c))

\* no directory that a copyDirectory is working on, or has left with the error of a
\* child, had its time set by that copyDirectory
NotSetBeforeReturn ==
    \A k \in DOMAIN stack :
        stack[k].fn = "copyDirectory" =>
            \A i \in DOMAIN log :
                (log[i].op = "chtimes" /\ log[i].path = stack[k].dst) =>
                    \E m \in RunCalls : m > i

TargetOf(i) ==
    IF Len(Sources) = 1 THEN RunTarget ELSE Join(Destination, Base(Sources[i]))

\* run is about to return nil
Succeeded == At("run", "summary") /\ ret # "err"

\* C19: when a run returns successfully, with or without -D, every destination
\* directory that is the copy of a source directory has the sanitized time of that
\* source directory
C19_DirTimesEqualSource ==
    Succeeded =>
        \A i \in DOMAIN Sources :
            \A q \in Under(fs, Sources[i]) :
                fs[q].kind = "dir" =>
                    LET p == TargetOf(i) \o Rel(Sources[i], q)
                    IN /\ IsDir(fs, p)
                       /\ fs[p].mtime = sanitizeFATTime(fs[q].mtime)

\* the events at which a copyFile opened the destination p
Opens(p) == {c \in DOMAIN log : log[c].op = "create" /\ log[c].path = p}

\* the calls of os.Chtimes that a copyFile made on the destination it had opened
FileStamps == {i \in DOMAIN log : log[i].op = "chtimes" /\ \E c \in Opens(log[i].path) : c < i}

\* the event at which the copyFile of the i-th event opened its destination
OpenOf(i) ==
    CHOOSE c \in Opens(log[i].path) : c < i /\ \A e \in Opens(log[i].path) : e < i => e <= c

\* C20: when copyFile sets the time of its destination it has written, flushed and
\* closed it, in this order, and holds no handle on it; it writes and closes nothing
\* of the destination afterwards; it counts the file as copied only when the time is
\* set, and with the time it has set
C20_CloseBeforeChtimes ==
    /\ \A i \in FileStamps :
          LET p == log[i].path
              c == OpenOf(i)
          IN /\ \E k \in (c + 1)..(i - 1) :
                   /\ log[k] = Event("close", p, 0)
                   /\ \E w \in (c + 1)..(k - 1) : log[w].op = "write" /\ log[w].path = p
                   /\ \A w \in (k + 1)..(i - 1) : log[w].path # p
             /\ \A j \in DOMAIN log :
                   (j > i /\ log[j].path = p /\ log[j].op \in {"write", "close", "sync failed"}) =>
                       \E e \in Opens(p) : i < e /\ e < j
             /\ (\A e \in Opens(p) : e < i) => <<"dst", p>> \notin handles
    /\ At("copyFile", "stats") =>
          /\ log[Len(log)] = Event("chtimes", Top.dst, sanitizeFATTime(Top.info.mtime))
          /\ fs[Top.dst].mtime = sanitizeFATTime(Top.info.mtime)
          /\ <<"dst", Top.dst>> \notin handles
    /\ Running =>
          stats.FilesCopied =
              Cardinality(FileStamps) - (IF At("copyFile", "stats") THEN 1 ELSE 0)

C20_Witness ==
    /\ Running
    /\ stats.FilesCopied = 1
    /\ Cardinality(FileStamps) = 2
    /\ At("copyFile", "stats")
    /\ \E i \in FileStamps : log[i].arg = FATMin /\ fs[log[i].path].mtime = FATMin

\* the attempts to remove an extra file, and those to remove an extra directory
FileRemovals == {i \in DOMAIN log : log[i].op \in {"remove", "remove failed"}}

DirRemovals == {i \in DOMAIN log : log[i].op \in {"removeall", "removeall failed"}}

\* C21: every attempt to remove an extra file comes before every attempt to remove
\* an extra directory, and while handleExtraFiles removes, the walk of the
\* destination is over: nothing is left to visit, what was classified is what was
\* reported, no path is accessed after the first removal, and every extra file is
\* attempted before the first extra directory
C21_FilesBeforeDirs ==
    /\ \A i \in FileRemovals : \A j \in DirRemovals : i < j
    /\ \A i \in FileRemovals \cup DirRemovals :
          /\ opts.DeleteExtra
          /\ \A w \in DOMAIN log : log[w].op = "walk failed" => w < i
          /\ \E c \in Calls : c < i
    /\ (FileRemovals \cup DirRemovals # {} /\ stack # <<>>
          /\ Top.fn = "handleExtraFiles") =>
          /\ Top.pc = "delete"
          /\ Top.queue = <<>>
          /\ Top.extraFiles = out.extraFiles /\ Top.extraDirs = out.extraDirs
    /\ DirRemovals # {} =>
          {log[i].path : i \in FileRemovals} = Range(out.extraFiles)

C21_Witness ==
    /\ opts.DeleteExtra
    /\ \E i \in FileRemovals : \E j \in DirRemovals :
          /\ i < j
          /\ log[i] = Event("remove", <<"d", "s", "a">>, 0)
          /\ log[j] = Event("removeall", <<"d", "s", "u">>, 0)
    /\ Exists(fs0, <<"d", "s", "u", "b">>)
    /\ ~Exists(fs, <<"d", "s", "u">>)

\* the sum of the sizes of the files of a list
RECURSIVE SumSizes(_, _)
SumSizes(f, paths) ==
    IF paths = <<>> THEN 0 ELSE f[Head(paths)].size + SumSizes(f, Tail(paths))

\* handleExtraFiles is walking the destination or has just reported
Classifying == At("handleExtraFiles", "walk") \/ JustReported

Classified == Range(Top.extraFiles) \cup Range(Top.extraDirs)

\* what holds of the classification at every step of the walk and at its end: no
\* path is classified twice or both ways, a classified path is absent from the source
\* set and lies in the root or in a directory of the source set, nothing at or below
\* an extra directory is classified besides it or waits to be visited, and the
\* counters follow the lists
ClassifiedOnce ==
    /\ Cardinality(Classified) = Len(Top.extraFiles) + Len(Top.extraDirs)
    /\ \A p \in Range(Top.extraFiles) : IsFile(fs, p)
    /\ \A p \in Range(Top.extraDirs) : IsDir(fs, p)
    /\ \A p \in Classified :
          /\ IsPrefix(Top.dst, p) /\ p # Top.dst
          /\ Rel(Top.dst, p) \notin Top.sourceItems
          /\ Dir(p) = Top.dst \/ Rel(Top.dst, Dir(p)) \in Top.sourceItems
    /\ \A d \in Range(Top.extraDirs) :
          /\ \A p \in Classified : p # d => ~IsPrefix(d, p)
          /\ Top.pc = "walk" => \A i \in DOMAIN Top.queue : ~IsPrefix(d, Top.queue[i])
    /\ stats.ExtraBytes = SumSizes(fs, Top.extraFiles)
    /\ stats.ExtraFound = Len(Top.extraFiles)
                            + (IF Top.pc = "walk" THEN 0 ELSE Len(Top.extraDirs))

\* C22 as stated: the walk classifies every destination path absent from the source
\* set whose parent is the root or in the source set, once, as a file or as a
\* directory, adds nothing for what lies below an extra directory, and at its end
\* ExtraFound is the number of extra files and directories and ExtraBytes the sum of
\* the sizes of the extra files
C22_EveryTopmostClassified ==
    /\ Classifying => ClassifiedOnce
    /\ JustReported => Topmost(fs, Top.dst, Top.src) \subseteq Reported

\* C22 as amended: the same, of every such path that the walk can access and that
\* does not lie below a path the walk cannot access; a path it cannot access is
\* skipped, with all below it, and is not classified
C22_AccessibleClassifiedOnce ==
    /\ Classifying => ClassifiedOnce
    /\ JustReported =>
          \A r \in Topmost(fs, Top.dst, Top.src) :
              IF Inaccessible(Top.dst \o r) THEN r \notin Reported ELSE r \in Reported

C22_Witness ==
    /\ JustReported
    /\ WalkFailures = {}
    /\ \E d \in Range(Top.extraDirs) : \E q \in Children(fs, d) : IsFile(fs, q) /\ fs[q].size > 0
    /\ Len(Top.extraFiles) = 1 /\ Len(Top.extraDirs) = 1
    /\ stats.ExtraBytes = fs[Top.extraFiles[1]].size /\ stats.ExtraBytes > 0
    /\ stats.ExtraFound = 2

\* the only source of the run is a plain file and extra entries are to be detected
FileSourceDetect ==
    /\ Len(Sources) = 1 /\ IsFile(fs0, Sources[1])
    /\ opts.DetectExtra

\* the directories on the way to the target, which a creation in them dates anew
OnTheWay(p) == \E t \in {D, Join(D, Base(Sources[1]))} : IsPrefix(p, t) /\ p # t

\* C23: when the only source is a plain file, with -d and with -D, nothing is
\* reported, counted or deleted as extra, the three extra counters stay 0, and every
\* entry there was, those of the directory that holds the copied file among them,
\* is still there, unchanged but for the copied file and the directories that hold it
C23_FileSourceNoExtras ==
    FileSourceDetect =>
        /\ stats.ExtraFound = 0 /\ stats.ExtraDeleted = 0 /\ stats.ExtraBytes = 0
        /\ out.extraFiles = <<>> /\ out.extraDirs = <<>> /\ out.deleted = <<>>
        /\ FileRemovals \cup DirRemovals = {}
        /\ \A i \in DOMAIN results :
              /\ results[i].stats.ExtraFound = 0
              /\ results[i].stats.ExtraDeleted = 0
              /\ results[i].stats.ExtraBytes = 0
              /\ results[i].out = [NoOut EXCEPT !.summary = results[i].out.summary]
        /\ \A p \in DOMAIN fs0 :
              /\ Exists(fs, p)
              /\ fs[p].kind = fs0[p].kind
              /\ (p \notin {D, Join(D, Base(Sources[1]))} /\ ~OnTheWay(p)) => fs[p] = fs0[p]

C23_Witness ==
    /\ FileSourceDetect /\ opts.DeleteExtra
    /\ Reconciled
    /\ Calls # {}
    /\ IsFile(fs0, <<"d", "a">>) /\ fs[<<"d", "a">>] = fs0[<<"d", "a">>]
    /\ \E i \in DOMAIN log : log[i].op = "write" /\ log[i].path = <<"d", "s">>
    /\ stats.FilesCopied = 1

\* the destination lies in the tree of a source, or is its root
DestinationInSource == \E i \in DOMAIN Sources : IsPrefix(Sources[i], Destination)

\* the frames of the copy phase
CopyFrames == {k \in DOMAIN stack : stack[k].fn \in CopyFns}

\* C24: in the first run, whatever the destination, the copy phase visits nothing
\* but the entries the source trees had when the run began, no entry while it is
\* being visited already, and never an entry the run has created
C24_VisitsSourceEntriesOnce ==
    results = <<>> =>
        /\ \A k \in CopyFrames :
              /\ stack[k].src \in DOMAIN fs0
              /\ \E i \in DOMAIN Sources : IsPrefix(Sources[i], stack[k].src)
        /\ \A i \in DOMAIN log, j \in DOMAIN log :
              (log[i].op = "mkdir" /\ log[j].op = "mkdir" /\ i # j) => log[i].path # log[j].path
        /\ \A k \in CopyFrames : \A i \in DOMAIN log :
              log[i].op \in {"mkdir", "create"} => ~IsPrefix(log[i].path, stack[k].src)

\* the events of the copy that the call m of copyRecursively by run has made
CopyEvents(m) ==
    {i \in DOMAIN log :
        /\ i > m
        /\ \A n \in (m + 1)..i : log[n].op \in CopyOps}

Last(set) == CHOOSE i \in set : \A j \in set : j <= i

\* what the log and the files show when the call m has returned nil: a directory
\* had its time set last of all, a file was skipped or had its time set last of all
\* and, being the only source, is synchronized
CopyCompleted(m) ==
    LET ev == CopyEvents(m)
        src == Sources[log[m].arg]
        t == log[m].path
    IN IF IsDir(fs, src)
       THEN ev # {} /\ log[Last(ev)] = Event("chtimes", t, sanitizeFATTime(fs[src].mtime))
       ELSE /\ ev # {} => log[Last(ev)] = Event("chtimes", t, sanitizeFATTime(fs[src].mtime))
            /\ Len(Sources) = 1 => Synced(src, t)

\* run has gone past its loop over the sources
PastCopying ==
    \/ out.summary
    \/ stack # <<>> /\ stack[1].fn = "run" /\ stack[1].pc = "summary"

\* C25: when the copy of a source fails, run returns the error and neither calls
\* handleExtraFiles nor shows the summary, with -d and -D as without: run goes past
\* its loop only when every source was copied completely, and a run that has
\* ended with an error has reported, counted and removed nothing as extra
C25_NoReconcileAfterFailure ==
    /\ PastCopying =>
          /\ Cardinality(RunCalls) = Len(Sources)
          /\ \A m \in RunCalls : CopyCompleted(m)
    /\ ~PastCopying =>
          /\ Calls = {} /\ FileRemovals \cup DirRemovals = {}
          /\ \A k \in DOMAIN stack : stack[k].fn # "handleExtraFiles"
          /\ out = NoOut
          /\ Running => (stats.ExtraFound = 0 /\ stats.ExtraDeleted = 0 /\ stats.ExtraBytes = 0)
    /\ CopyFailed => ~PastCopying
    /\ \A i \in DOMAIN results :
          results[i].ret = "err" =>
              /\ results[i].out = NoOut
              /\ i = 1 => (results[i].stats.ExtraFound = 0 /\ results[i].stats.ExtraDeleted = 0)

C25_Witness ==
    /\ opts.DeleteExtra
    /\ Done /\ Len(results) = 1 /\ results[1].ret = "err"
    /\ faults < MaxFaults
    /\ IsFile(fs, <<"s", "a">>) /\ IsFile(fs, <<"d", "s", "u", "b">>) /\ ~Exists(fs, <<"s", "u">>)
    /\ \E i \in DOMAIN log : log[i].op = "write" /\ log[i].arg < fs[<<"s", "a">>].size
    /\ out = NoOut /\ Calls = {}

\* handleExtraFiles is at work, or has returned to run
Reconciling ==
    /\ stack # <<>> /\ stack[1].fn = "run" /\ stack[1].pc = "summary"
    /\ Calls # {}

\* C26: handleExtraFiles removes no destination path whose relative path exists in
\* the source tree, neither by itself nor inside a directory it removes with all
\* its contents: no removal is of such a path or of a directory above one, no such
\* path is listed for removal, and each is still there at every step
C26_SourcePathsNotRemoved ==
    Reconciling =>
        LET rels == RelPaths(fs, Sources[1])
            h == stack[2]
        IN /\ \A r \in rels : Exists(fs, RunTarget \o r)
           /\ \A i \in FileRemovals \cup DirRemovals :
                 /\ IsPrefix(RunTarget, log[i].path) /\ log[i].path # RunTarget
                 /\ \A r \in rels : ~IsPrefix(log[i].path, RunTarget \o r)
           /\ Len(stack) > 1 =>
                 /\ h.pc # "start" => h.sourceItems = rels
                 /\ \A p \in Range(h.extraFiles) \cup Range(h.extraDirs) :
                       \A r \in rels : ~IsPrefix(p, RunTarget \o r)

C26_Witness ==
    /\ Reconciling /\ Len(stack) = 1 /\ ret = "ok"
    /\ IsFile(fs, <<"s", "a">>) /\ IsFile(fs, <<"d", "s", "a">>)
    /\ IsDir(fs, <<"s", "u">>) /\ IsDir(fs, <<"d", "s", "u">>)
    /\ ~Exists(fs, <<"s", "u", "b">>)
    /\ IsFile(fs0, <<"d", "s", "u", "b">>) /\ ~Exists(fs, <<"d", "s", "u", "b">>)
    /\ \E i \in FileRemovals : log[i] = Event("remove", <<"d", "s", "u", "b">>, 0)

\* the paths at or below a source of the run, before it and now
SourcePaths(f) == {p \in DOMAIN f : \E i \in DOMAIN Sources : IsPrefix(Sources[i], p)}

\* C27: whatever the sources, the destination and the options, a run creates,
\* writes, removes and dates anew no path at or below a source: the source trees
\* are at every step what they were when the first run began
C27_SourcesUntouched ==
    /\ SourcePaths(fs) = SourcePaths(fs0)
    /\ \A p \in SourcePaths(fs0) : fs[p] = fs0[p]

\* every directory below src exists as a directory below dst, every file as a file
\* of the same size whose time is the sanitized time of the source file or within
\* the tolerance of the source file's time
Mirrors(f, src, dst) ==
    \A q \in Under(f, src) :
        LET p == dst \o Rel(src, q)
        IN IF f[q].kind = "dir"
           THEN IsDir(f, p)
           ELSE /\ IsFile(f, p)
                /\ f[p].size = f[q].size
                /\ \/ f[p].mtime = sanitizeFATTime(f[q].mtime)
                   \/ Abs(f[q].mtime - f[p].mtime) <= Tolerance

\* C28: when copyRecursively(src, dst) has returned nil, dst mirrors src: the
\* directories are directories, the files are files of the same size and of the
\* sanitized time or of a time within 5 s of the source's
C28_SuccessMirrorsSource ==
    \A n \in 1..MaxRounds :
        (Returned(n) /\ results[n].ret = "ok") => Mirrors(fs, S, D)

\* C29: with several sources, the targets of distinct sources are pairwise distinct
\* and none lies in another, so that no path created or written for one source is
\* created, written or dated again for a later source of the run
C29_TargetsPairwiseDistinct ==
    Len(Sources) > 1 =>
        /\ \A m \in RunCalls, n \in RunCalls :
              m # n => ~IsPrefix(log[m].path, log[n].path)
        /\ \A i \in DOMAIN log, j \in DOMAIN log :
              (/\ i < j
               /\ log[i].op \in CopyOps /\ log[j].op \in CopyOps
               /\ IsPrefix(Destination, log[i].path) /\ log[i].path # Destination
               /\ log[i].path = log[j].path)
                  => CallOf(i) = CallOf(j)

\* the first call of copyRecursively was aborted in the transfer of the bytes and
\* left a destination file shorter than the source
Truncated1 ==
    /\ Len(results) >= 1 /\ results[1].ret = "err"
    /\ Len(log) >= 2
    /\ log[1] = Event("create", D, 0)
    /\ log[2].op = "write" /\ log[2].path = D /\ log[2].arg < fs[S].size

\* C30: after a call that was aborted in the transfer and left a truncated
\* destination file, the next call on the unchanged source does not skip the file:
\* needsUpdate answers true, and a call without a failure copies the file again,
\* leaving the source's size and the sanitized time of the source
C30_TruncatedIsCopiedAgain ==
    Truncated1 =>
        /\ (Len(results) = 1 /\ AfterNeedsUpdate) => (Top.needsCopy /\ Top.pc = "open")
        /\ (Returned(2) /\ results[2].ret = "ok") =>
              /\ results[2].stats.FilesCopied = 1
              /\ results[2].stats.FilesSkipped = 0
              /\ results[2].stats.BytesCopied = fs[S].size
              /\ IsFile(fs, D)
              /\ fs[D].size = fs[S].size
              /\ fs[D].mtime = sanitizeFATTime(fs[S].mtime)
        /\ fs[S] = fs0[S]

C30_Witness ==
    /\ Truncated1
    /\ Returned(2) /\ results[2].ret = "ok"
    /\ fs[S].size = MaxSize /\ log[2].arg > 0
    /\ Abs(fs[S].mtime - Now) <= Tolerance
    /\ IsFile(fs0, D) /\ fs0[D].size = fs0[S].size
    /\ fs[D].size = MaxSize

====
